---- MODULE Spec2Model ----
(***************************************************************************)
(* Model of the client-side realtime layer of autojob.                     *)
(*                                                                         *)
(* SocketService (services/socket): one object holding a WebSocket         *)
(* reference, a handler registry, a reconnect counter and a connecting     *)
(* flag.  Browser WebSocket objects are modelled by their readyState; the  *)
(* callbacks the service installs on a socket (onopen, onclose, onerror,   *)
(* onmessage) stay installed for the life of that socket, whether or not   *)
(* the service still references it.  Everything runs on one event loop, so *)
(* every callback and every method call is one atomic action.              *)
(***************************************************************************)
EXTENDS Integers, Sequences, FiniteSets, TLC

\* ---------------------------------------------------------------- bounds
\* Sockets the connection-lifecycle specification may create.
MaxSockets == 6
\* Sockets the automatic-reconnection specification may create.
AutoSockets == 8
\* Sockets the event/registry specification may create.
EvSockets == 2
\* on() calls in the event/registry specification.
MaxRegs == 2
\* Sockets the send specification may create.
SendSockets == 2
\* send() calls in the send specification.
MaxSends == 2
\* Notifications in one fetched list.
MaxList == 2
\* Poll fetches in flight at once.
MaxInflight == 2
\* Distinct filler notifications the server creates in the truncation
\* specification: enough to push the seen-set past its limit.
TruncFill == 102

\* ------------------------------------------------------ program constants
maxReconnectAttempts == 5
\* shownNotificationsRef: the size above which the set is cut, and the
\* number of keys the cut keeps.
SeenLimit == 100
SeenKeep == 50

\* The null reference.
Null == 0

\* Handler identities a caller may register.
HandlerIds == {"h1", "h2"}

\* Event tags: the three synthetic ones, the wildcard, and one wire tag.
TagSet == {"connected", "disconnected", "error", "message", "job_status_changed"}

\* Inbound frames by what JSON.parse and `data.type || 'message'` make of them:
\* text that is not JSON, the JSON value null, and a JSON object whose type
\* field is a tag or is absent/empty ("").
Frames ==
    {[kind |-> "garbage", type |-> ""], [kind |-> "null", type |-> ""]}
        \cup {[kind |-> "object", type |-> t] : t \in TagSet \cup {""}}

\* A job as the store holds it: id, status, and rev standing for all its
\* other fields.
Job(id, status, rev) == [id |-> id, status |-> status, rev |-> rev]

\* selectedJob: null
NoJob == Job("null", "null", "null")

\* Ids of the jobs the server has, and an id no job has.
StoreIds == {"J1", "J2"}
UnknownId == "J9"

\* Status values; the store accepts any string.
Statuses == {"pending", "applied", "failed"}

VARIABLES
    ws,                 \* SocketService.ws: Null or the index of a socket
    readyState,         \* readyState of every socket created so far, by index
    isConnecting,       \* SocketService.isConnecting
    reconnectAttempts,  \* SocketService.reconnectAttempts
    timers,             \* pending setTimeout(() => this.connect()) callbacks
    handlers,           \* SocketService.handlers: tag -> insertion-ordered set
    disposers,          \* the unsubscribe closures on() has returned, in order
    disposed,           \* the closures of `disposers` called so far, by index
    stamp,              \* per tag and handler: the on() call that put it in the
                        \* tag's set (0 when it is not in the set)
    wire,               \* frames written with ws.send, in order
    out,                \* emit() calls made by the last step, in order
    invoked,            \* handler invocations made by the last step, in order
    last,               \* the last step taken
    \* history of the run, read only by the properties
    manualClose,        \* disconnect() was called and connect() not since
    lastConn,           \* last local connected/disconnected event emitted
    closesSinceOpen,    \* close events since the last open (or since start)
    schedSinceOpen,     \* reconnects scheduled since the last open
    gaveUp,             \* a close scheduled nothing; no connect() call or open since
    nextMsg,            \* send() calls made so far
    dropped,            \* send() calls made while not connected
    \* useNotificationPoller: one instance of the hook
    phase,              \* "unmounted", "mounted" or "torndown"
    enabled,            \* the enabled argument of the current render
    intervals,          \* setInterval timers of this instance not cleared
    inflight,           \* getAll() requests awaiting their response
    shownNotifications, \* shownNotificationsRef.current, in insertion order
    lastSeen,           \* lastSeenRef.current
    toasts,             \* alerts presented by the last poller step, in order
    looked,             \* keys the last poller step tested with Set.has
    inserted,           \* keys the last poller step added to the set
    peak,               \* largest size the set had after a showNotification
                        \* call of the last poller step
    everShown,          \* keys of all alerts presented so far
    fresh,              \* filler notifications the server has created
    \* useWebSocket: one instance of the hook
    hookTags,           \* tags under which the hook's effect has a handler
                        \* registered with the service
    pushAlerts,         \* alerts the hook's handlers have presented, in order
    pushed,             \* attention events delivered as frames so far
    \* useJobStore
    jobs,               \* the jobs list
    selectedJob,        \* the selected job, or NoJob
    isLoading,          \* the loading flag
    error,              \* the error message, or "null"
    pagination,         \* the pagination record
    filters,            \* the filters record
    requests,           \* API requests awaiting their response
    calls,              \* updateJob, retryJob and resumeJob calls so far
    events,             \* job_status_changed frames received so far
    lastWrite,          \* per job id: the status carried by the last status
                        \* event or CRUD response applied ("none" if none)
    \* browser extension: the content script of one page
    extRunning,         \* init() has run
    currentJobId,       \* currentJobId, or "null"
    display,            \* continueButton.style.display
    disabled,           \* continueButton.disabled
    pc,                 \* where handleContinueClick is suspended: "idle",
                        \* "resume" (awaiting the POST), "clear" (awaiting
                        \* the DELETE)
    resumeId,           \* job id in the URL of the POST awaited, or "null"
    hideTimers,         \* 3-second timers set and not yet fired
    checks              \* pending-notification fetches of checkJobStatus
                        \* awaiting their response

svcVars == <<ws, readyState, isConnecting, reconnectAttempts, timers>>
regVars == <<handlers, disposers, disposed, stamp>>
stepVars == <<out, invoked, last>>
histVars == <<manualClose, lastConn, closesSinceOpen, schedSinceOpen, gaveUp>>
sendVars == <<wire, nextMsg, dropped>>
pollVars == <<phase, enabled, intervals, inflight, shownNotifications, lastSeen,
              toasts, looked, inserted, peak, everShown, fresh>>
pushVars == <<hookTags, pushAlerts, pushed>>
storeVars == <<jobs, selectedJob, isLoading, error, pagination, filters>>
storeHist == <<requests, calls, events, lastWrite>>
extVars == <<extRunning, currentJobId, display, disabled, pc, resumeId, hideTimers, checks>>
appVars == <<pushVars, storeVars, storeHist, extVars>>
vars == <<svcVars, regVars, stepVars, histVars, sendVars, pollVars, appVars>>

Sockets == 1..Len(readyState)

\* this.ws?.readyState === WebSocket.OPEN
isConnected == ws # Null /\ readyState[ws] = "OPEN"

\* A socket that is connecting or open.
Live(s) == readyState[s] \in {"CONNECTING", "OPEN"}

Init ==
    /\ ws = Null
    /\ readyState = <<>>
    /\ isConnecting = FALSE
    /\ reconnectAttempts = 0
    /\ timers = 0
    /\ handlers = [t \in TagSet |-> <<>>]
    /\ disposers = <<>>
    /\ disposed = {}
    /\ stamp = [t \in TagSet |-> [h \in HandlerIds |-> 0]]
    /\ wire = <<>>
    /\ out = <<>>
    /\ invoked = <<>>
    /\ last = [op |-> "init", sock |-> Null]
    /\ manualClose = FALSE
    /\ lastConn = "none"
    /\ closesSinceOpen = 0
    /\ schedSinceOpen = 0
    /\ gaveUp = FALSE
    /\ nextMsg = 0
    /\ dropped = {}
    /\ phase = "unmounted"
    /\ enabled = FALSE
    /\ intervals = 0
    /\ inflight = 0
    /\ shownNotifications = <<>>
    /\ lastSeen = [has |-> FALSE, val |-> <<>>]
    /\ toasts = <<>>
    /\ looked = <<>>
    /\ inserted = <<>>
    /\ peak = 0
    /\ everShown = {}
    /\ fresh = 0
    /\ hookTags = {}
    /\ pushAlerts = <<>>
    /\ pushed = {}
    /\ jobs = <<>>
    /\ selectedJob = NoJob
    /\ isLoading = FALSE
    /\ error = "null"
    /\ pagination = [page |-> 1, total |-> 0]
    /\ filters = "none"
    /\ requests = {}
    /\ calls = 0
    /\ events = 0
    /\ lastWrite = [id \in StoreIds |-> "none"]
    /\ extRunning = FALSE
    /\ currentJobId = "null"
    /\ display = "none"
    /\ disabled = FALSE
    /\ pc = "idle"
    /\ resumeId = "null"
    /\ hideTimers = 0
    /\ checks = 0

\* ---------------------------------------------------------------- emit
\* The invocations of handlers[type].forEach: one per handler, in set order.
Calls(type) == [i \in 1..Len(handlers[type]) |-> [tag |-> type, h |-> handlers[type][i]]]

\* Mutant of emit: the wildcard replay is made for every type.
emitAlwaysReplays(type) == Calls(type) \o Calls("message")

\* Mutant of emit: the wildcard's handlers run before the type's.
emitWildcardFirst(type) == (IF type # "message" THEN Calls("message") ELSE <<>>) \o Calls(type)

\* emit(type, data): the type's handlers, then the wildcard's unless the type
\* is the wildcard itself.
emit(type) == Calls(type) \o (IF type # "message" THEN Calls("message") ELSE <<>>)

\* ------------------------------------------------------------- connect
\* Mutant of connectBody: the guard forgets the isConnecting flag.
connectBodyNoFlag ==
    IF isConnected
    THEN UNCHANGED <<ws, readyState, isConnecting>>
    ELSE /\ isConnecting' = TRUE
         /\ readyState' = Append(readyState, "CONNECTING")
         /\ ws' = Len(readyState) + 1

\* The body of connect(), shared by external callers and the reconnect timer.
connectBody ==
    IF isConnected \/ isConnecting
    THEN UNCHANGED <<ws, readyState, isConnecting>>
    ELSE /\ isConnecting' = TRUE
         /\ readyState' = Append(readyState, "CONNECTING")
         /\ ws' = Len(readyState) + 1

\* Mutant of connect: an external connect() also resets the attempt counter.
connectResets ==
    /\ connectBody
    /\ reconnectAttempts' = 0
    /\ UNCHANGED timers
    /\ out' = <<>> /\ invoked' = <<>>
    /\ last' = [op |-> "connect", sock |-> ws', made |-> Len(readyState') > Len(readyState)]
    /\ UNCHANGED appVars
    /\ UNCHANGED pollVars
    /\ manualClose' = FALSE
    /\ gaveUp' = FALSE
    /\ UNCHANGED <<lastConn, closesSinceOpen, schedSinceOpen>>
    /\ UNCHANGED <<regVars, sendVars>>

\* connect() called from outside the service (useWebSocket's effect).
connect ==
    /\ connectBody
    /\ UNCHANGED <<reconnectAttempts, timers>>
    /\ out' = <<>> /\ invoked' = <<>>
    /\ last' = [op |-> "connect", sock |-> ws', made |-> Len(readyState') > Len(readyState)]
    /\ UNCHANGED appVars
    /\ UNCHANGED pollVars
    /\ manualClose' = FALSE
    /\ gaveUp' = FALSE
    /\ UNCHANGED <<lastConn, closesSinceOpen, schedSinceOpen>>
    /\ UNCHANGED <<regVars, sendVars>>

\* A pending reconnect timer fires and runs this.connect().
reconnectTimer ==
    /\ timers > 0
    /\ timers' = timers - 1
    /\ connectBody
    /\ UNCHANGED reconnectAttempts
    /\ out' = <<>> /\ invoked' = <<>>
    /\ last' = [op |-> "timer", sock |-> ws', made |-> Len(readyState') > Len(readyState)]
    /\ UNCHANGED appVars
    /\ UNCHANGED pollVars
    /\ UNCHANGED histVars
    /\ UNCHANGED <<regVars, sendVars>>

\* WebSocket.close(): a connecting or open socket starts closing.
close(s) == IF Live(s) THEN [readyState EXCEPT ![s] = "CLOSING"] ELSE readyState

\* disconnect()
disconnect ==
    /\ IF ws # Null
       THEN /\ readyState' = close(ws)
            /\ ws' = Null
       ELSE UNCHANGED <<ws, readyState>>
    /\ UNCHANGED <<isConnecting, reconnectAttempts, timers>>
    /\ out' = <<>> /\ invoked' = <<>>
    /\ last' = [op |-> "disconnect", sock |-> ws]
    /\ UNCHANGED appVars
    /\ UNCHANGED pollVars
    /\ manualClose' = TRUE
    /\ UNCHANGED <<lastConn, closesSinceOpen, schedSinceOpen, gaveUp>>
    /\ UNCHANGED <<regVars, sendVars>>

\* ------------------------------------------------- socket event callbacks
\* ws.onopen of socket s.
onopen(s) ==
    /\ readyState[s] = "CONNECTING"
    /\ readyState' = [readyState EXCEPT ![s] = "OPEN"]
    /\ isConnecting' = FALSE
    /\ reconnectAttempts' = 0
    /\ out' = <<[tag |-> "connected", local |-> TRUE]>>
    /\ invoked' = emit("connected")
    /\ last' = [op |-> "open", sock |-> s]
    /\ UNCHANGED appVars
    /\ UNCHANGED pollVars
    /\ lastConn' = "connected"
    /\ closesSinceOpen' = 0
    /\ schedSinceOpen' = 0
    /\ gaveUp' = FALSE
    /\ UNCHANGED <<ws, timers, manualClose>>
    /\ UNCHANGED <<regVars, sendVars>>

\* Mutant of onclose: the cap is compared with <= instead of <.
oncloseOffByOne(s) ==
    /\ readyState[s] \in {"CONNECTING", "OPEN", "CLOSING"}
    /\ readyState' = [readyState EXCEPT ![s] = "CLOSED"]
    /\ isConnecting' = FALSE
    /\ ws' = Null
    /\ out' = <<[tag |-> "disconnected", local |-> TRUE]>>
    /\ invoked' = emit("disconnected")
    /\ IF reconnectAttempts <= maxReconnectAttempts
       THEN /\ reconnectAttempts' = reconnectAttempts + 1
            /\ timers' = timers + 1
            /\ schedSinceOpen' = schedSinceOpen + 1
            /\ UNCHANGED gaveUp
       ELSE /\ gaveUp' = TRUE
            /\ UNCHANGED <<reconnectAttempts, timers, schedSinceOpen>>
    /\ last' = [op |-> "close", sock |-> s]
    /\ UNCHANGED appVars
    /\ UNCHANGED pollVars
    /\ lastConn' = "disconnected"
    /\ closesSinceOpen' = closesSinceOpen + 1
    /\ UNCHANGED manualClose
    /\ UNCHANGED <<regVars, sendVars>>

\* ws.onclose of socket s: the connection failed, the peer closed it, or the
\* close started by close() completed.
onclose(s) ==
    /\ readyState[s] \in {"CONNECTING", "OPEN", "CLOSING"}
    /\ readyState' = [readyState EXCEPT ![s] = "CLOSED"]
    /\ isConnecting' = FALSE
    /\ ws' = Null
    /\ out' = <<[tag |-> "disconnected", local |-> TRUE]>>
    /\ invoked' = emit("disconnected")
    /\ IF reconnectAttempts < maxReconnectAttempts
       THEN /\ reconnectAttempts' = reconnectAttempts + 1
            /\ timers' = timers + 1
            /\ schedSinceOpen' = schedSinceOpen + 1
            /\ UNCHANGED gaveUp
       ELSE /\ gaveUp' = TRUE
            /\ UNCHANGED <<reconnectAttempts, timers, schedSinceOpen>>
    /\ last' = [op |-> "close", sock |-> s]
    /\ UNCHANGED appVars
    /\ UNCHANGED pollVars
    /\ lastConn' = "disconnected"
    /\ closesSinceOpen' = closesSinceOpen + 1
    /\ UNCHANGED manualClose
    /\ UNCHANGED <<regVars, sendVars>>

\* ws.onclose of socket s when the k-th handler invoked by
\* emit('disconnected') throws: the exception leaves forEach, emit and the
\* onclose callback, and the statements after the emit call do not run.
oncloseThrows(s, k) ==
    /\ readyState[s] \in {"CONNECTING", "OPEN", "CLOSING"}
    /\ k \in 1..Len(emit("disconnected"))
    /\ readyState' = [readyState EXCEPT ![s] = "CLOSED"]
    /\ isConnecting' = FALSE
    /\ ws' = Null
    /\ out' = <<[tag |-> "disconnected", local |-> TRUE]>>
    /\ invoked' = SubSeq(emit("disconnected"), 1, k)
    /\ UNCHANGED <<reconnectAttempts, timers>>
    /\ last' = [op |-> "closeThrows", sock |-> s]
    /\ UNCHANGED appVars
    /\ UNCHANGED pollVars
    /\ lastConn' = "disconnected"
    /\ closesSinceOpen' = closesSinceOpen + 1
    /\ UNCHANGED <<manualClose, schedSinceOpen, gaveUp>>
    /\ UNCHANGED <<regVars, sendVars>>

\* Mutant of onerror: the error handler also drops the socket reference and
\* the connecting flag, as onclose does.
onerrorCloses(s) ==
    /\ readyState[s] \in {"CONNECTING", "OPEN", "CLOSING"}
    /\ ws' = Null
    /\ isConnecting' = FALSE
    /\ out' = <<[tag |-> "error", local |-> TRUE]>>
    /\ invoked' = emit("error")
    /\ last' = [op |-> "error", sock |-> s]
    /\ UNCHANGED appVars
    /\ UNCHANGED pollVars
    /\ UNCHANGED <<readyState, reconnectAttempts, timers>>
    /\ UNCHANGED <<regVars, histVars, sendVars>>

\* ws.onerror of socket s.
onerror(s) ==
    /\ readyState[s] \in {"CONNECTING", "OPEN", "CLOSING"}
    /\ out' = <<[tag |-> "error", local |-> TRUE]>>
    /\ invoked' = emit("error")
    /\ last' = [op |-> "error", sock |-> s]
    /\ UNCHANGED appVars
    /\ UNCHANGED pollVars
    /\ UNCHANGED <<svcVars, regVars, histVars, sendVars>>

\* What onmessage's try block reaches for frame f: the tag it emits, or
\* "none" when JSON.parse or the read of data.type throws.
frameTag(f) ==
    CASE f.kind = "garbage" -> "none"
      [] f.kind = "null" -> "none"
      [] OTHER -> IF f.type = "" THEN "message" ELSE f.type

\* ws.onmessage of socket s with frame f.
onmessage(s, f) ==
    /\ readyState[s] = "OPEN"
    /\ IF frameTag(f) = "none"
       THEN out' = <<>> /\ invoked' = <<>>
       ELSE /\ out' = <<[tag |-> frameTag(f), local |-> FALSE]>>
            /\ invoked' = emit(frameTag(f))
    /\ last' = [op |-> "message", sock |-> s, frame |-> f]
    /\ UNCHANGED appVars
    /\ UNCHANGED pollVars
    /\ UNCHANGED <<svcVars, regVars, histVars, sendVars>>

\* ------------------------------------------------------------------ send
\* Mutant of send: the guard tests the reference, not its readyState.
sendNoStateCheck ==
    /\ nextMsg' = nextMsg + 1
    /\ IF ws # Null
       THEN /\ wire' = Append(wire, [sock |-> ws, msg |-> nextMsg + 1])
            /\ UNCHANGED dropped
       ELSE /\ dropped' = dropped \cup {nextMsg + 1}
            /\ UNCHANGED wire
    /\ out' = <<>> /\ invoked' = <<>>
    /\ last' = [op |-> "send", sock |-> ws]
    /\ UNCHANGED appVars
    /\ UNCHANGED pollVars
    /\ UNCHANGED <<svcVars, regVars, histVars>>

\* send(type, payload): the call is numbered so that its frame can be told
\* from every other call's.
send ==
    /\ nextMsg' = nextMsg + 1
    /\ IF isConnected
       THEN /\ wire' = Append(wire, [sock |-> ws, msg |-> nextMsg + 1])
            /\ UNCHANGED dropped
       ELSE /\ dropped' = dropped \cup {nextMsg + 1}
            /\ UNCHANGED wire
    /\ out' = <<>> /\ invoked' = <<>>
    /\ last' = [op |-> "send", sock |-> ws]
    /\ UNCHANGED appVars
    /\ UNCHANGED pollVars
    /\ UNCHANGED <<svcVars, regVars, histVars>>

\* ------------------------------------------------------------- registry
\* The elements of a sequence.
Range(seq) == {seq[i] : i \in 1..Len(seq)}

\* Set.has
InSet(seq, h) == \E i \in 1..Len(seq) : seq[i] = h

\* Set.add: appended unless already a member.
SetAdd(seq, h) == IF InSet(seq, h) THEN seq ELSE Append(seq, h)

\* Set.delete
SetDelete(seq, h) == SelectSeq(seq, LAMBDA x : x # h)

\* on(type, handler): returns the closure that deletes handler from type's set.
on(type, h) ==
    /\ handlers' = [handlers EXCEPT ![type] = SetAdd(@, h)]
    /\ disposers' = Append(disposers, [tag |-> type, h |-> h])
    /\ stamp' = IF InSet(handlers[type], h) THEN stamp
                ELSE [stamp EXCEPT ![type][h] = Len(disposers) + 1]
    /\ UNCHANGED disposed
    /\ out' = <<>> /\ invoked' = <<>>
    /\ last' = [op |-> "on", sock |-> Null]
    /\ UNCHANGED appVars
    /\ UNCHANGED pollVars
    /\ UNCHANGED <<svcVars, histVars, sendVars>>

\* Mutant of unsubscribe: the closure drops the tag's whole set.
unsubscribeClearsTag(i) ==
    /\ handlers' = [handlers EXCEPT ![disposers[i].tag] = <<>>]
    /\ disposed' = disposed \cup {i}
    /\ stamp' = [stamp EXCEPT ![disposers[i].tag] = [h \in HandlerIds |-> 0]]
    /\ out' = <<>> /\ invoked' = <<>>
    /\ last' = [op |-> "unsubscribe", sock |-> Null, sub |-> i]
    /\ UNCHANGED appVars
    /\ UNCHANGED pollVars
    /\ UNCHANGED <<disposers, svcVars, histVars, sendVars>>

\* Calling the i-th closure on() returned.
unsubscribe(i) ==
    /\ handlers' = [handlers EXCEPT ![disposers[i].tag] = SetDelete(@, disposers[i].h)]
    /\ disposed' = disposed \cup {i}
    /\ stamp' = [stamp EXCEPT ![disposers[i].tag][disposers[i].h] = 0]
    /\ out' = <<>> /\ invoked' = <<>>
    /\ last' = [op |-> "unsubscribe", sock |-> Null, sub |-> i]
    /\ UNCHANGED appVars
    /\ UNCHANGED pollVars
    /\ UNCHANGED <<disposers, svcVars, histVars, sendVars>>

\* ------------------------------------------------- useNotificationPoller
\* Strings are sequences of tokens; an optional field is absent or holds one.
Absent == [has |-> FALSE, val |-> <<>>]
Some(v) == [has |-> TRUE, val |-> v]

\* notification.job_id || ''
OrEmpty(j) == IF j.has THEN j.val ELSE <<>>

\* `${notification.type}-${notification.created_at}-${notification.job_id || ''}`
notificationKey(n) ==
    n.type \o <<"-">> \o n.created_at \o <<"-">> \o OrEmpty(n.job_id)

\* arr.slice(-k): the last k elements, or all of them when there are fewer.
SliceLast(arr, k) ==
    IF Len(arr) <= k THEN arr ELSE SubSeq(arr, Len(arr) - k + 1, Len(arr))

\* Mutant of Truncate: the set is never cut.
TruncateNever(set) == set

\* Mutant of Truncate: the cut keeps the first keys, slice(0, 50).
TruncateKeepsOldest(set) ==
    IF Len(set) > SeenLimit THEN SubSeq(set, 1, SeenKeep) ELSE set

\* The size check that follows the insertion of a key.
Truncate(set) ==
    IF Len(set) > SeenLimit THEN SliceLast(set, SeenKeep) ELSE set

\* Mutant of Alert: the error style is given to type 'error' only.
AlertErrorOnly(n) ==
    LET toast(kind, duration) ==
            <<[key |-> notificationKey(n), kind |-> kind, duration |-> duration]>>
    IN  CASE n.priority \in {"urgent", "high"} ->
                IF n.type = <<"error">>
                THEN toast("error", 8000)
                ELSE IF n.type = <<"captcha_detected">>
                THEN toast("captcha", 10000)
                ELSE toast("warning", 6000)
          [] n.priority = "normal" ->
                IF n.type = <<"job_completed">> \/ n.type = <<"submit_ready">>
                THEN toast("success", 5000)
                ELSE toast("plain", 4000)
          [] OTHER -> <<>>

\* The switch on notification.priority: the alert presented, if any.
Alert(n) ==
    LET toast(kind, duration) ==
            <<[key |-> notificationKey(n), kind |-> kind, duration |-> duration]>>
    IN  CASE n.priority \in {"urgent", "high"} ->
                IF n.type = <<"error">> \/ n.type = <<"job_failed">>
                THEN toast("error", 8000)
                ELSE IF n.type = <<"captcha_detected">>
                THEN toast("captcha", 10000)
                ELSE toast("warning", 6000)
          [] n.priority = "normal" ->
                IF n.type = <<"job_completed">> \/ n.type = <<"submit_ready">>
                THEN toast("success", 5000)
                ELSE toast("plain", 4000)
          [] OTHER -> <<>>

Max(a, b) == IF a > b THEN a ELSE b

\* Mutant of showNotification: the key is tested but never added.
showNotificationNoAdd(acc, n) ==
    LET key == notificationKey(n) IN
    IF InSet(acc.set, key)
    THEN [acc EXCEPT !.looked = Append(@, key)]
    ELSE [acc EXCEPT !.looked = Append(@, key),
                     !.peak = Max(@, Len(acc.set)),
                     !.toasts = @ \o Alert(n)]

\* Mutant of showNotification: no membership test before the insertion.
showNotificationNoCheck(acc, n) ==
    LET key == notificationKey(n)
        set == Truncate(SetAdd(acc.set, key))
    IN  [set |-> set,
         looked |-> acc.looked,
         inserted |-> Append(acc.inserted, key),
         peak |-> Max(acc.peak, Len(set)),
         toasts |-> acc.toasts \o Alert(n)]

\* showNotification(notification), on what the step has done so far.
showNotification(acc, n) ==
    LET key == notificationKey(n) IN
    IF InSet(acc.set, key)
    THEN [acc EXCEPT !.looked = Append(@, key)]
    ELSE LET set == Truncate(SetAdd(acc.set, key))
         IN  [set |-> set,
              looked |-> Append(acc.looked, key),
              inserted |-> Append(acc.inserted, key),
              peak |-> Max(acc.peak, Len(set)),
              toasts |-> acc.toasts \o Alert(n)]

\* Mutant of Toastable: normal priority passes the filter too.
ToastableOrNormal(n) == n.priority \in {"high", "urgent", "normal"}

\* notification.priority === 'high' || notification.priority === 'urgent'
Toastable(n) == n.priority = "high" \/ n.priority = "urgent"

\* for (const notification of response.notifications), from element i on.
RECURSIVE Loop(_, _, _)
Loop(acc, list, i) ==
    IF i > Len(list) THEN acc
    ELSE Loop(IF Toastable(list[i]) THEN showNotification(acc, list[i]) ELSE acc,
              list, i + 1)

KeysOf(ts) == {ts[i].key : i \in 1..Len(ts)}

\* The effect body when enabled: the initial poll issues a fetch and the
\* interval is set; nothing when disabled.
Effect(e, timersLeft) ==
    /\ inflight' = IF e THEN inflight + 1 ELSE inflight
    /\ intervals' = IF e THEN timersLeft + 1 ELSE timersLeft

\* Mutant of Cleanup: the effect returns no cleanup.
CleanupNothing == intervals

\* The cleanup the effect returned: clearInterval when it had run enabled.
Cleanup == IF enabled THEN intervals - 1 ELSE intervals

pollQuiet == toasts' = <<>> /\ looked' = <<>> /\ inserted' = <<>> /\ peak' = 0

\* The component mounts with enabled = e.
pollMount(e) ==
    /\ phase = "unmounted"
    /\ phase' = "mounted"
    /\ enabled' = e
    /\ Effect(e, intervals)
    /\ pollQuiet
    /\ out' = <<>> /\ invoked' = <<>>
    /\ last' = [op |-> "pollMount", sock |-> Null]
    /\ UNCHANGED appVars
    /\ UNCHANGED <<shownNotifications, lastSeen, everShown, fresh>>
    /\ UNCHANGED <<svcVars, regVars, histVars, sendVars>>

\* A render with a different enabled: the old effect is cleaned up and the
\* effect runs again.
pollSetEnabled(e) ==
    /\ phase = "mounted"
    /\ e # enabled
    /\ enabled' = e
    /\ Effect(e, Cleanup)
    /\ pollQuiet
    /\ out' = <<>> /\ invoked' = <<>>
    /\ last' = [op |-> "pollSetEnabled", sock |-> Null]
    /\ UNCHANGED appVars
    /\ UNCHANGED <<phase, shownNotifications, lastSeen, everShown, fresh>>
    /\ UNCHANGED <<svcVars, regVars, histVars, sendVars>>

\* The component unmounts.
pollUnmount ==
    /\ phase = "mounted"
    /\ phase' = "torndown"
    /\ intervals' = Cleanup
    /\ pollQuiet
    /\ out' = <<>> /\ invoked' = <<>>
    /\ last' = [op |-> "pollUnmount", sock |-> Null]
    /\ UNCHANGED appVars
    /\ UNCHANGED <<enabled, inflight, shownNotifications, lastSeen, everShown, fresh>>
    /\ UNCHANGED <<svcVars, regVars, histVars, sendVars>>

\* The interval fires: pollNotifications() runs up to its await.
pollTick ==
    /\ intervals > 0
    /\ inflight' = inflight + 1
    /\ pollQuiet
    /\ out' = <<>> /\ invoked' = <<>>
    /\ last' = [op |-> "pollTick", sock |-> Null]
    /\ UNCHANGED appVars
    /\ UNCHANGED <<phase, enabled, intervals, shownNotifications, lastSeen, everShown, fresh>>
    /\ UNCHANGED <<svcVars, regVars, histVars, sendVars>>

\* Mutant of pollResolve: the seen-set is a local of each pollNotifications
\* call, so a response is tested against an empty set.
pollResolveOwnSet(list) ==
    /\ inflight > 0
    /\ inflight' = inflight - 1
    /\ LET acc == Loop([set |-> <<>>, looked |-> <<>>,
                         inserted |-> <<>>, peak |-> 0, toasts |-> <<>>], list, 1)
       IN  /\ shownNotifications' = acc.set
           /\ looked' = acc.looked
           /\ inserted' = acc.inserted
           /\ peak' = acc.peak
           /\ toasts' = acc.toasts
           /\ everShown' = everShown \cup KeysOf(acc.toasts)
    /\ lastSeen' = IF Len(list) > 0 THEN Some(list[1].created_at) ELSE lastSeen
    /\ out' = <<>> /\ invoked' = <<>>
    /\ last' = [op |-> "pollResolve", sock |-> Null, list |-> list]
    /\ UNCHANGED appVars
    /\ UNCHANGED <<phase, enabled, intervals>>
    /\ UNCHANGED <<svcVars, regVars, histVars, sendVars>>

\* getAll() resolves with response.notifications = list: the rest of
\* pollNotifications runs.
pollResolve(list) ==
    /\ inflight > 0
    /\ inflight' = inflight - 1
    /\ LET acc == Loop([set |-> shownNotifications, looked |-> <<>>,
                         inserted |-> <<>>, peak |-> 0, toasts |-> <<>>], list, 1)
       IN  /\ shownNotifications' = acc.set
           /\ looked' = acc.looked
           /\ inserted' = acc.inserted
           /\ peak' = acc.peak
           /\ toasts' = acc.toasts
           /\ everShown' = everShown \cup KeysOf(acc.toasts)
    /\ lastSeen' = IF Len(list) > 0 THEN Some(list[1].created_at) ELSE lastSeen
    /\ out' = <<>> /\ invoked' = <<>>
    /\ last' = [op |-> "pollResolve", sock |-> Null, list |-> list]
    /\ UNCHANGED appVars
    /\ UNCHANGED <<phase, enabled, intervals>>
    /\ UNCHANGED <<svcVars, regVars, histVars, sendVars>>

\* Mutant of pollFail: the catch block polls again at once.
pollFailRetries ==
    /\ inflight > 0
    /\ inflight' = inflight
    /\ pollQuiet
    /\ out' = <<>> /\ invoked' = <<>>
    /\ last' = [op |-> "pollFail", sock |-> Null]
    /\ UNCHANGED appVars
    /\ UNCHANGED <<phase, enabled, intervals, shownNotifications, lastSeen, everShown, fresh>>
    /\ UNCHANGED <<svcVars, regVars, histVars, sendVars>>

\* getAll() rejects: the catch block swallows the error.
pollFail ==
    /\ inflight > 0
    /\ inflight' = inflight - 1
    /\ pollQuiet
    /\ out' = <<>> /\ invoked' = <<>>
    /\ last' = [op |-> "pollFail", sock |-> Null]
    /\ UNCHANGED appVars
    /\ UNCHANGED <<phase, enabled, intervals, shownNotifications, lastSeen, everShown, fresh>>
    /\ UNCHANGED <<svcVars, regVars, histVars, sendVars>>

\* ----------------------------------------------- fetched lists (inputs)
Priorities == {"low", "normal", "high", "urgent"}

\* A notification created at instant 0.
Probe(t, p, j) == [type |-> <<t>>, created_at |-> <<0>>, priority |-> p, job_id |-> j]

\* The notifications a list is made of: one of each priority, among them a
\* low one that shares its key with the high one, and one with a job id.
Probes ==
    {Probe("error", "high", Absent),
     Probe("error", "low", Absent),
     Probe("info", "normal", Absent),
     Probe("captcha_detected", "urgent", Some(<<"J1">>))}

\* Notifications of every priority for each of five types.
PolicyTypes == {"error", "job_failed", "captcha_detected", "info", "job_completed"}
PolicyProbes == {Probe(t, p, Absent) : t \in PolicyTypes, p \in Priorities}

SeqsUpTo(S, n) == UNION {[1..k -> S] : k \in 0..n}

\* The k-th filler: a high-priority notification created at instant k.
Filler(k) ==
    [type |-> <<"info">>, created_at |-> <<k>>, priority |-> "high", job_id |-> Absent]

\* A list of fillers described by its items: "new" is the next filler the
\* server creates, "old" is the first filler, listed again.
RECURSIVE News(_, _)
News(items, i) ==
    IF i = 0 THEN 0 ELSE News(items, i - 1) + (IF items[i] = "new" THEN 1 ELSE 0)
FillerList(items) ==
    [i \in 1..Len(items) |->
        IF items[i] = "new" THEN Filler(fresh + News(items, i)) ELSE Filler(1)]

\* ----------------------------------------------------------- useWebSocket
\* The tags useWebSocket's effect registers a handler under (the wildcard
\* too when the caller passed onMessage; here it did not).
HookTags == {"connected", "disconnected", "job_status_changed",
             "intervention_needed", "job_completed", "notification"}

\* Jobs the backend works on.
Jobs == {"J1"}

\* The hook's effect: socketService.connect(), then one on() call per tag.
useWebSocketMount ==
    /\ hookTags = {}
    /\ hookTags' = HookTags
    /\ connectBody
    /\ UNCHANGED <<reconnectAttempts, timers>>
    /\ out' = <<>> /\ invoked' = <<>>
    /\ last' = [op |-> "useWebSocketMount", sock |-> ws',
                made |-> Len(readyState') > Len(readyState)]
    /\ manualClose' = FALSE
    /\ gaveUp' = FALSE
    /\ UNCHANGED <<lastConn, closesSinceOpen, schedSinceOpen>>
    /\ UNCHANGED <<pushAlerts, pushed>>
    /\ UNCHANGED <<regVars, sendVars, pollVars, storeVars, storeHist, extVars>>

\* ws.onmessage of socket s with the frame
\* {"type": "intervention_needed", "job_id": j, ...}: emit() reaches the
\* hook's handler, which presents an alert.
interventionFrame(s, j) ==
    /\ readyState[s] = "OPEN"
    /\ out' = <<[tag |-> "intervention_needed", local |-> FALSE]>>
    /\ invoked' = Calls("message")
    /\ pushAlerts' = IF "intervention_needed" \in hookTags
                     THEN Append(pushAlerts, [kind |-> "action", job |-> j, duration |-> 10000])
                     ELSE pushAlerts
    /\ pushed' = pushed \cup {j}
    /\ last' = [op |-> "interventionFrame", sock |-> s, job |-> j]
    /\ UNCHANGED hookTags
    /\ UNCHANGED <<svcVars, regVars, histVars, sendVars, pollVars, storeVars, storeHist, extVars>>

\* ------------------------------------------------------------ useJobStore
\* Bounds of the store specification: updateJob, retryJob and resumeJob
\* calls, and status frames.
MaxCalls == 2
MaxEvents == 2

\* The list the server answers fetchJobs with.
ServerJobs == <<Job("J1", "pending", "r0"), Job("J2", "pending", "r0")>>

CrudOps == {"updateJob", "retryJob", "resumeJob"}

notStore == <<svcVars, regVars, histVars, sendVars, pollVars, pushVars, extVars>>

\* jobs.map((j) => (j.id === id ? { ...j, status } : j))
WithStatus(list, id, status) ==
    [i \in 1..Len(list) |->
        IF list[i].id = id THEN [list[i] EXCEPT !.status = status] ELSE list[i]]

\* jobs.map((j) => (j.id === id ? updated : j))
Replaced(list, id, updated) ==
    [i \in 1..Len(list) |-> IF list[i].id = id THEN updated ELSE list[i]]

\* { ...a, ...b }: b's fields over a's
Merged(a, b) == [f \in DOMAIN a |-> IF f \in DOMAIN b THEN b[f] ELSE a[f]]

\* Mutant of updateJobStatus: the matching job is rebuilt from id and
\* status alone, and the error is cleared.
updateJobStatusRebuilds(id, status) ==
    /\ jobs' = Replaced(jobs, id, Job(id, status, "null"))
    /\ selectedJob' = IF selectedJob.id = id THEN Job(id, status, "null") ELSE selectedJob
    /\ error' = "null"
    /\ UNCHANGED <<isLoading, pagination, filters>>

\* updateJobStatus(id, status)
updateJobStatus(id, status) ==
    /\ jobs' = WithStatus(jobs, id, status)
    /\ selectedJob' = IF selectedJob.id = id
                      THEN Merged(selectedJob, [status |-> status])
                      ELSE selectedJob
    /\ UNCHANGED <<isLoading, error, pagination, filters>>

\* ws.onmessage of socket s with the frame
\* {"type": "job_status_changed", "job_id": id, "new_status": status}: the
\* hook's handler passes it to onStatusChange, which is updateJobStatus.
statusFrame(s, id, status) ==
    /\ readyState[s] = "OPEN"
    /\ out' = <<[tag |-> "job_status_changed", local |-> FALSE]>>
    /\ invoked' = emit("job_status_changed")
    /\ IF "job_status_changed" \in hookTags
       THEN /\ updateJobStatus(id, status)
            /\ lastWrite' = [x \in StoreIds |-> IF x = id THEN status ELSE lastWrite[x]]
       ELSE UNCHANGED <<storeVars, lastWrite>>
    /\ events' = events + 1
    /\ last' = [op |-> "statusFrame", sock |-> s, id |-> id, status |-> status]
    /\ UNCHANGED <<requests, calls>>
    /\ UNCHANGED <<svcVars, regVars, histVars, sendVars, pollVars, pushVars, extVars>>

\* The part of a store method before its await: the flags are set and the
\* request is issued.
storeCall(op, id) ==
    /\ isLoading' = TRUE
    /\ error' = "null"
    /\ calls' = IF op \in CrudOps THEN calls + 1 ELSE calls
    /\ requests' = requests \cup {[n |-> calls', op |-> op, id |-> id]}
    /\ out' = <<>> /\ invoked' = <<>>
    /\ last' = [op |-> op, sock |-> Null, id |-> id]
    /\ UNCHANGED <<jobs, selectedJob, pagination, filters, events, lastWrite>>
    /\ UNCHANGED notStore

\* fetchJobs(): the call.
fetchJobs == storeCall("fetchJobs", "null")

\* updateJob(id, data), retryJob(id), resumeJob(id): the call.
crudCall(op, id) == storeCall(op, id)

\* fetchJobs(): the response arrives.
fetchJobsOk(r) ==
    /\ r \in requests /\ r.op = "fetchJobs"
    /\ requests' = requests \ {r}
    /\ jobs' = ServerJobs
    /\ pagination' = [page |-> 1, total |-> Len(ServerJobs)]
    /\ isLoading' = FALSE
    /\ lastWrite' = [x \in StoreIds |->
                        IF \E i \in 1..Len(ServerJobs) : ServerJobs[i].id = x
                        THEN (CHOOSE j \in Range(ServerJobs) : j.id = x).status
                        ELSE lastWrite[x]]
    /\ out' = <<>> /\ invoked' = <<>>
    /\ last' = [op |-> "fetchJobsOk", sock |-> Null, id |-> "null"]
    /\ UNCHANGED <<selectedJob, error, filters, calls, events>>
    /\ UNCHANGED notStore

\* updateJob, retryJob, resumeJob: the response arrives with the job as the
\* server has it, in status `status`.
crudOk(r, status) ==
    /\ r \in requests /\ r.op \in CrudOps
    /\ requests' = requests \ {r}
    /\ LET updated == Job(r.id, status, "r1") IN
        /\ jobs' = Replaced(jobs, r.id, updated)
        /\ selectedJob' = IF r.op = "updateJob" /\ selectedJob.id = r.id
                          THEN Merged(selectedJob, updated)
                          ELSE selectedJob
    /\ isLoading' = FALSE
    /\ lastWrite' = [lastWrite EXCEPT ![r.id] = status]
    /\ out' = <<>> /\ invoked' = <<>>
    /\ last' = [op |-> "crudOk", sock |-> Null, id |-> r.id, req |-> r.op, status |-> status]
    /\ UNCHANGED <<error, pagination, filters, calls, events>>
    /\ UNCHANGED notStore

\* Any store method: the request fails and the catch block records it.
storeFail(r) ==
    /\ r \in requests
    /\ requests' = requests \ {r}
    /\ error' = "failed"
    /\ isLoading' = FALSE
    /\ out' = <<>> /\ invoked' = <<>>
    /\ last' = [op |-> "storeFail", sock |-> Null, id |-> r.id]
    /\ UNCHANGED <<jobs, selectedJob, pagination, filters, calls, events, lastWrite>>
    /\ UNCHANGED notStore

\* setSelectedJob(job)
setSelectedJob(job) ==
    /\ selectedJob' = job
    /\ out' = <<>> /\ invoked' = <<>>
    /\ last' = [op |-> "setSelectedJob", sock |-> Null, id |-> job.id]
    /\ UNCHANGED <<jobs, isLoading, error, pagination, filters>>
    /\ UNCHANGED storeHist
    /\ UNCHANGED notStore

\* ----------------------------------------- browser extension (content script)
\* Job ids the pending-notifications endpoint may report a captcha for.
ExtJobs == {"J1", "J2"}

\* Status checks in flight together.
MaxChecks == 2

notExt == <<svcVars, regVars, histVars, sendVars, pollVars, pushVars, storeVars, storeHist>>

\* init(): the panel is created with the button hidden, the first status
\* check is issued and the 2-second interval is set.
extInit ==
    /\ ~extRunning
    /\ extRunning' = TRUE
    /\ display' = "none"
    /\ out' = <<>> /\ invoked' = <<>>
    /\ checks' = checks + 1
    /\ last' = [op |-> "extInit", sock |-> Null]
    /\ UNCHANGED <<currentJobId, disabled, pc, resumeId, hideTimers>>
    /\ UNCHANGED notExt

\* showContinueButton(notification)
showContinueButton == display' = "block"

\* hideContinueButton()
hideContinueButton == display' = "none"

\* The 2-second interval fires: checkJobStatus() up to the await of its
\* fetch.
extTick ==
    /\ extRunning
    /\ checks' = checks + 1
    /\ out' = <<>> /\ invoked' = <<>>
    /\ last' = [op |-> "extTick", sock |-> Null]
    /\ UNCHANGED <<extRunning, currentJobId, display, disabled, pc, resumeId, hideTimers>>
    /\ UNCHANGED notExt

\* checkJobStatus() from the point where its fetch has resolved with an ok
\* response: found is the job_id of the first captcha_detected notification
\* with requires_action, or "none".
checkJobStatus(found) ==
    /\ checks > 0
    /\ checks' = checks - 1
    /\ IF found # "none"
       THEN currentJobId' = found /\ showContinueButton
       ELSE hideContinueButton /\ UNCHANGED currentJobId
    /\ out' = <<>> /\ invoked' = <<>>
    /\ last' = [op |-> "checkJobStatus", sock |-> Null, found |-> found]
    /\ UNCHANGED <<extRunning, disabled, pc, resumeId, hideTimers>>
    /\ UNCHANGED notExt

\* checkJobStatus() when the response is not ok or the fetch rejects.
checkJobStatusFail ==
    /\ checks > 0
    /\ checks' = checks - 1
    /\ out' = <<>> /\ invoked' = <<>>
    /\ last' = [op |-> "checkJobStatusFail", sock |-> Null]
    /\ UNCHANGED <<extRunning, currentJobId, display, disabled, pc, resumeId, hideTimers>>
    /\ UNCHANGED notExt

\* The user clicks the Continue button (a hidden or disabled button takes
\* no click): handleContinueClick() up to the await of the POST.
handleContinueClick ==
    /\ extRunning
    /\ display = "block" /\ ~disabled
    /\ IF currentJobId = "null"
       THEN UNCHANGED <<disabled, pc, resumeId>>
       ELSE /\ disabled' = TRUE
            /\ pc' = "resume"
            /\ resumeId' = currentJobId
    /\ out' = <<>> /\ invoked' = <<>>
    /\ last' = [op |-> "click", sock |-> Null, posted |-> currentJobId]
    /\ UNCHANGED <<extRunning, currentJobId, display, hideTimers, checks>>
    /\ UNCHANGED notExt

\* The POST resolves ok: the button is hidden and the DELETE is issued,
\* with currentJobId read again.
resumeOk ==
    /\ pc = "resume"
    /\ display' = "none"
    /\ pc' = "clear"
    /\ out' = <<>> /\ invoked' = <<>>
    /\ last' = [op |-> "resumeOk", sock |-> Null,
                resumed |-> resumeId, cleared |-> currentJobId]
    /\ UNCHANGED <<extRunning, currentJobId, disabled, resumeId, hideTimers, checks>>
    /\ UNCHANGED notExt

\* The POST resolves not ok, or the POST or the DELETE rejects: the else
\* branch and the catch block make the same assignments.
clickFails ==
    /\ pc \in {"resume", "clear"}
    /\ disabled' = FALSE
    /\ pc' = "idle"
    /\ resumeId' = "null"
    /\ out' = <<>> /\ invoked' = <<>>
    /\ last' = [op |-> "clickFails", sock |-> Null]
    /\ UNCHANGED <<extRunning, currentJobId, display, hideTimers, checks>>
    /\ UNCHANGED notExt

\* The DELETE resolves: currentJobId is cleared and the 3-second timer set.
clearDone ==
    /\ pc = "clear"
    /\ currentJobId' = "null"
    /\ hideTimers' = hideTimers + 1
    /\ pc' = "idle"
    /\ resumeId' = "null"
    /\ out' = <<>> /\ invoked' = <<>>
    /\ last' = [op |-> "clearDone", sock |-> Null]
    /\ UNCHANGED <<extRunning, display, disabled, checks>>
    /\ UNCHANGED notExt

\* The 3-second timer fires.
hideTimer ==
    /\ hideTimers > 0
    /\ hideTimers' = hideTimers - 1
    /\ hideContinueButton
    /\ out' = <<>> /\ invoked' = <<>>
    /\ last' = [op |-> "hideTimer", sock |-> Null]
    /\ UNCHANGED <<extRunning, currentJobId, disabled, pc, resumeId, checks>>
    /\ UNCHANGED notExt

\* ------------------------------------------------------- specifications
\* A connect() call now would create no socket, or fewer than n exist.
Room(n) == isConnected \/ isConnecting \/ Len(readyState) < n

\* Connection lifecycle: connect/disconnect calls, socket events and timers.
Next ==
    \/ Room(MaxSockets) /\ connect
    \/ Room(MaxSockets) /\ reconnectTimer
    \/ disconnect
    \/ \E s \in Sockets : onopen(s)
    \/ \E s \in Sockets : onclose(s)
    \/ \E s \in Sockets : onerror(s)

Spec == Init /\ [][Next]_vars

\* Automatic reconnection alone: connect() calls, timers, opens and closes,
\* with no disconnect() call.
NextAuto ==
    \/ Room(AutoSockets) /\ connect
    \/ Room(AutoSockets) /\ reconnectTimer
    \/ \E s \in Sockets : onopen(s)
    \/ \E s \in Sockets : onclose(s)

SpecAuto == Init /\ [][NextAuto]_vars

\* Outbound frames: the lifecycle with few sockets, plus send().
NextSend ==
    \/ Room(SendSockets) /\ connect
    \/ Room(SendSockets) /\ reconnectTimer
    \/ disconnect
    \/ \E s \in Sockets : onopen(s)
    \/ \E s \in Sockets : onclose(s)
    \/ nextMsg < MaxSends /\ send

SpecSend == Init /\ [][NextSend]_vars

\* Events and registry: automatic reconnection with few sockets, plus
\* transport errors, inbound frames, on() and the closures on() returns.
NextEv ==
    \/ Room(EvSockets) /\ connect
    \/ Room(EvSockets) /\ reconnectTimer
    \/ \E s \in Sockets : onopen(s)
    \/ \E s \in Sockets : onclose(s)
    \/ \E s \in Sockets : onerror(s)
    \/ \E s \in Sockets, f \in Frames : onmessage(s, f)
    \/ \E t \in TagSet, h \in HandlerIds : Len(disposers) < MaxRegs /\ on(t, h)
    \/ \E i \in 1..Len(disposers) : unsubscribe(i)

SpecEv == Init /\ [][NextEv]_vars

\* The poller with lists of probes: mounting, enabling and disabling,
\* unmounting, ticks, responses and failures.
NextPoll ==
    \/ \E e \in BOOLEAN : pollMount(e)
    \/ \E e \in BOOLEAN : inflight < MaxInflight /\ pollSetEnabled(e)
    \/ pollUnmount
    \/ inflight < MaxInflight /\ pollTick
    \/ \E list \in SeqsUpTo(Probes, MaxList) : pollResolve(list) /\ UNCHANGED fresh
    \/ pollFail

SpecPoll == Init /\ [][NextPoll]_vars

\* The poller fed with fillers until the seen-set has been cut.
NextTrunc ==
    \/ pollMount(TRUE)
    \/ inflight < MaxInflight /\ pollTick
    \/ \E items \in SeqsUpTo({"new", "old"}, MaxList) :
            /\ fresh + News(items, Len(items)) <= TruncFill
            /\ fresh + News(items, Len(items)) >= 1
            /\ pollResolve(FillerList(items))
            /\ fresh' = fresh + News(items, Len(items))
    \/ pollFail

SpecTrunc == Init /\ [][NextTrunc]_vars

\* The service with subscribers of the close event, any of which may
\* throw when it is invoked.
NextThrow ==
    \/ Room(EvSockets) /\ connect
    \/ Room(EvSockets) /\ reconnectTimer
    \/ \E s \in Sockets : onopen(s)
    \/ \E s \in Sockets : onclose(s)
    \/ \E s \in Sockets, k \in 1..MaxRegs : oncloseThrows(s, k)
    \/ \E t \in {"disconnected", "message"}, h \in HandlerIds :
            Len(disposers) < MaxRegs /\ on(t, h)
    \/ \E i \in 1..Len(disposers) : unsubscribe(i)

SpecThrow == Init /\ [][NextThrow]_vars

\* The content script: status checks finding a captcha for any job or
\* none, clicks, and the click's requests settling, in any interleaving.
NextExt ==
    \/ extInit
    \/ checks < MaxChecks /\ extTick
    \/ \E found \in ExtJobs \cup {"none"} : checkJobStatus(found)
    \/ checkJobStatusFail
    \/ handleContinueClick
    \/ resumeOk
    \/ clickFails
    \/ clearDone
    \/ hideTimer

SpecExt == Init /\ [][NextExt]_vars

\* Overlapping fetches: the initial poll and the ticks that fire before any
\* response put MaxInflight fetches in flight together; then they settle,
\* each with any list or a failure.
Settling == inflight = MaxInflight \/ last.op \in {"pollResolve", "pollFail"}

NextOverlap ==
    \/ pollMount(TRUE)
    \/ inflight < MaxInflight /\ last.op \in {"pollMount", "pollTick"} /\ pollTick
    \/ \E list \in SeqsUpTo(Probes, MaxList) :
            Settling /\ pollResolve(list) /\ UNCHANGED fresh
    \/ Settling /\ pollFail

SpecOverlap == Init /\ [][NextOverlap]_vars

\* The poller fed with responses of one notification, of any type and
\* priority.
NextPolicy ==
    \/ pollMount(TRUE)
    \/ inflight < MaxInflight /\ pollTick
    \/ \E n \in PolicyProbes : pollResolve(<<n>>) /\ UNCHANGED fresh
    \/ pollFail

SpecPolicy == Init /\ [][NextPolicy]_vars

\* Both channels: the hook with its socket, receiving each job's
\* intervention frame once, and the poller fetching lists of probes.
NextBoth ==
    \/ useWebSocketMount
    \/ \E s \in Sockets : onopen(s)
    \/ \E s \in Sockets, j \in Jobs : j \notin pushed /\ interventionFrame(s, j)
    \/ pollMount(TRUE)
    \/ inflight < MaxInflight /\ pollTick
    \/ \E list \in SeqsUpTo(Probes, 1) : pollResolve(list) /\ UNCHANGED fresh
    \/ pollFail

SpecBoth == Init /\ [][NextBoth]_vars

\* The job store: the list is fetched, jobs are selected, CRUD methods are
\* called on job J1 and answered in any order, and status frames for any id
\* arrive through the hook.
NextStore ==
    \/ useWebSocketMount
    \/ \E s \in Sockets : onopen(s)
    \/ \E s \in Sockets, id \in StoreIds \cup {UnknownId}, st \in Statuses :
            events < MaxEvents /\ statusFrame(s, id, st)
    \/ jobs = <<>> /\ requests = {} /\ fetchJobs
    \/ \E op \in CrudOps :
            jobs # <<>> /\ calls < MaxCalls /\ crudCall(op, "J1")
    \/ \E r \in requests : fetchJobsOk(r)
    \/ \E r \in requests, st \in Statuses : crudOk(r, st)
    \/ \E r \in requests : storeFail(r)
    \/ \E job \in Range(jobs) \cup {NoJob} : job # selectedJob /\ setSelectedJob(job)

SpecStore == Init /\ [][NextStore]_vars

\* ================================================================ claims
Min(a, b) == IF a < b THEN a ELSE b

\* The client's state in the terms of the state machine
\* Disconnected -> Connecting -> Connected -> Disconnected.
State ==
    IF isConnected THEN "Connected"
    ELSE IF isConnecting THEN "Connecting"
    ELSE "Disconnected"

\* C1: at most one socket created by the service is connecting or open at
\* any time, under any interleaving of connect(), disconnect(), socket
\* events and reconnect timers.
C1_AtMostOneLive == Cardinality({s \in Sockets : Live(s)}) <= 1

\* C2: a local 'connected' event is never emitted when the last local
\* connection event emitted was also 'connected' (no 'disconnected' between).
C2_NoDoubleConnected ==
    [][(last'.op = "open" /\ out' = <<[tag |-> "connected", local |-> TRUE]>>)
            => lastConn # "connected"]_vars

\* C3: from the return of disconnect() until the next external connect()
\* call, no reconnect is scheduled and no socket is created (a pending
\* reconnect timer opens no connection).
C3_DisconnectSuppresses ==
    [][(manualClose /\ manualClose')
            => (timers' <= timers /\ Len(readyState') = Len(readyState))]_vars

\* C4: a close event schedules a reconnect and increments the counter iff
\* the counter is below maxReconnectAttempts; the closes since the last open
\* have scheduled exactly min(N, 5) reconnects; and once a close has
\* scheduled none, no automatic attempt creates a socket until connect() is
\* called externally.
C4_ReconnectCap ==
    [][/\ last'.op = "close" =>
            IF reconnectAttempts < maxReconnectAttempts
            THEN timers' = timers + 1 /\ reconnectAttempts' = reconnectAttempts + 1
            ELSE timers' = timers /\ reconnectAttempts' = reconnectAttempts
       /\ schedSinceOpen' = Min(closesSinceOpen', maxReconnectAttempts)
       /\ (gaveUp /\ gaveUp') => Len(readyState') = Len(readyState)]_vars

\* The first two parts of C4 alone: the close rule and the min(N, 5) count.
C4_CloseRuleAndCount ==
    [][/\ last'.op = "close" =>
            IF reconnectAttempts < maxReconnectAttempts
            THEN timers' = timers + 1 /\ reconnectAttempts' = reconnectAttempts + 1
            ELSE timers' = timers /\ reconnectAttempts' = reconnectAttempts
       /\ schedSinceOpen' = Min(closesSinceOpen', maxReconnectAttempts)]_vars

\* The counter is at the cap and the client is Disconnected.
AtCap ==
    /\ reconnectAttempts = maxReconnectAttempts
    /\ State = "Disconnected"

\* Socket s was created by an external connect() call made at the cap, and
\* that call was the last step.
Resumed(s) ==
    /\ last = [op |-> "connect", sock |-> s, made |-> TRUE]
    /\ reconnectAttempts = maxReconnectAttempts

\* C5 as claimed: connect() at the cap starts a new attempt, and the close of
\* that attempt schedules a reconnect again even when it never opened.
C5_ResumeWhetherOrNotOpen ==
    [][/\ (last'.op = "connect" /\ AtCap) => (last'.made /\ State' = "Connecting")
       /\ \A s \in Sockets :
            (Resumed(s) /\ last' = [op |-> "close", sock |-> s])
                => timers' = timers + 1]_vars

\* C5 amended: connect() at the cap starts a new attempt and leaves the
\* counter at the cap; a close of that attempt before any open schedules
\* nothing and leaves the counter at the cap; only an open lowers the
\* counter, to zero, and a close below the cap schedules one reconnect.
C5_ResumeOnlyAfterOpen ==
    [][/\ (last'.op = "connect" /\ AtCap)
            => /\ last'.made
               /\ State' = "Connecting"
               /\ reconnectAttempts' = maxReconnectAttempts
       /\ \A s \in Sockets :
            (Resumed(s) /\ last' = [op |-> "close", sock |-> s])
                => timers' = timers /\ reconnectAttempts' = maxReconnectAttempts
       /\ reconnectAttempts' < reconnectAttempts
            => last'.op = "open" /\ reconnectAttempts' = 0
       /\ (last'.op = "close" /\ reconnectAttempts < maxReconnectAttempts)
            => timers' = timers + 1]_vars

\* Six sockets have closed since the start without an open and all five
\* scheduled timers are still pending, so sockets 2..6 were created by
\* external connect() calls, the sixth at the cap; its close scheduled none.
C5_Witness ==
    /\ last = [op |-> "close", sock |-> maxReconnectAttempts + 1]
    /\ closesSinceOpen = maxReconnectAttempts + 1
    /\ timers = maxReconnectAttempts
    /\ reconnectAttempts = maxReconnectAttempts
    /\ gaveUp

\* C6: the counter stays within 0..maxReconnectAttempts, and a step that
\* brings it to zero from a positive value is a successful open.
C6_CounterRange ==
    /\ [](reconnectAttempts \in 0..maxReconnectAttempts)
    /\ [][(reconnectAttempts # 0 /\ reconnectAttempts' = 0) => last'.op = "open"]_vars

\* An open has just reset the counter: five sockets closed before it, so the
\* counter had reached the cap.
C6_Witness ==
    /\ last.op = "open"
    /\ reconnectAttempts = 0
    /\ Len(readyState) = maxReconnectAttempts + 1
    /\ \A s \in 1..maxReconnectAttempts : readyState[s] = "CLOSED"
    /\ timers = maxReconnectAttempts

C8_SendAtMostOnce ==
    /\ [](\A i \in 1..Len(wire) : wire[i].msg \notin dropped)
    /\ [][/\ last'.op = "send" =>
                /\ IF isConnected
                   THEN wire' = Append(wire, [sock |-> ws, msg |-> nextMsg + 1])
                   ELSE wire' = wire
                /\ UNCHANGED <<svcVars, regVars>>
          /\ wire' # wire => last'.op = "send"]_vars

\* A send() was dropped before the open, and a later send() was written once
\* the socket had opened: the dropped frame is not on the wire.
C8_Witness ==
    /\ 1 \in dropped
    /\ wire = <<[sock |-> 1, msg |-> 2]>>

\* C9: every open emits exactly one local 'connected' event, and every step
\* that takes the client from Connected or Connecting into Disconnected
\* emits exactly one local 'disconnected' event.
C9_EventPerTransition ==
    [][/\ last'.op = "open" => out' = <<[tag |-> "connected", local |-> TRUE]>>
       /\ (State # "Disconnected" /\ State' = "Disconnected")
            => out' = <<[tag |-> "disconnected", local |-> TRUE]>>]_vars

\* C10: a transport error and an inbound frame that cannot be decoded leave
\* the service's state unchanged and schedule nothing; the error is emitted
\* as one local 'error' event, and the bad frame causes no emit and no
\* handler invocation.
C10_ErrorAndBadFrame ==
    [][/\ last'.op = "error" =>
            /\ UNCHANGED <<svcVars, regVars, sendVars>>
            /\ out' = <<[tag |-> "error", local |-> TRUE]>>
       /\ (last'.op = "message" /\ last'.frame.kind \in {"garbage", "null"}) =>
            /\ UNCHANGED <<svcVars, regVars, sendVars>>
            /\ out' = <<>>
            /\ invoked' = <<>>]_vars

\* A frame that is not JSON has just arrived on an open socket while handlers
\* were registered under 'error' and under the wildcard; none was invoked.
C10_Witness ==
    /\ last.op = "message"
    /\ last.frame.kind = "garbage"
    /\ handlers["error"] # <<>>
    /\ handlers["message"] # <<>>
    /\ invoked = <<>>
    /\ isConnected

\* C11: isConnected is true exactly when a socket the service opened is
\* currently open (able to deliver frames); a socket that is connecting,
\* closing or closed never makes it true.
C11_IsConnectedIffOpen ==
    isConnected <=> \E s \in Sockets : readyState[s] = "OPEN"

\* The half of C11 that holds: isConnected is never true without an open socket.
C11_ConnectedOnlyIfOpen ==
    isConnected => \E s \in Sockets : readyState[s] = "OPEN"

\* The on() calls whose own closure has not been called.
Undisposed == (1..Len(disposers)) \ disposed

\* C12 as stated: calling the closure one on() call returned removes that
\* subscription and nothing else, so every on() call whose own closure has
\* not been called still has its handler registered under its tag (also when
\* the same handler was registered again under the same tag, or a closure is
\* called more than once).
C12_ExactlyThatSubscription ==
    \A j \in Undisposed : InSet(handlers[disposers[j].tag], disposers[j].h)

\* C12, amended: the closure returned by on(tag, handler) removes exactly the
\* pair (tag, handler) from the registry: every other pair keeps its
\* membership and its place, the closures and the connection state are
\* unchanged; and an on() call stays registered as long as no closure
\* returned for its own (tag, handler) pair has been called.
C12_ExactlyThatHandler ==
    /\ [](\A j \in Undisposed :
            (\A i \in disposed : disposers[i] # disposers[j])
                => InSet(handlers[disposers[j].tag], disposers[j].h))
    /\ [][last'.op = "unsubscribe" =>
            LET d == disposers[last'.sub] IN
            /\ ~InSet(handlers'[d.tag], d.h)
            /\ \A t \in TagSet :
                    handlers'[t] = IF t = d.tag
                                   THEN SelectSeq(handlers[t], LAMBDA x : x # d.h)
                                   ELSE handlers[t]
            /\ UNCHANGED <<disposers, svcVars, sendVars>>]_vars

\* A closure was called and removed one handler while another handler
\* registered under the same tag stayed.
C12_Witness ==
    /\ last.op = "unsubscribe"
    /\ last.sub = 1
    /\ Len(disposers) = 2
    /\ disposers[1].tag = disposers[2].tag
    /\ disposers[1].h # disposers[2].h
    /\ handlers[disposers[1].tag] = <<disposers[2].h>>

\* The handlers in a tag's set, and the same ordered by the on() call that
\* registered each of them.
Registered(t) == {h \in HandlerIds : stamp[t][h] > 0}
RegOrder(t) ==
    [i \in 1..Cardinality(Registered(t)) |->
        CHOOSE h \in Registered(t) :
            Cardinality({g \in Registered(t) : stamp[t][g] < stamp[t][h]}) = i - 1]
InOrder(t) == [i \in 1..Cardinality(Registered(t)) |-> [tag |-> t, h |-> RegOrder(t)[i]]]

C13_WitnessSameTag ==
    /\ Len(invoked) = 2
    /\ invoked[1].tag = invoked[2].tag
    /\ invoked[1].h = "h2"
    /\ stamp[invoked[1].tag]["h2"] < stamp[invoked[1].tag]["h1"]

\* How many times the last step invoked handler h as a wildcard handler.
WildcardCalls(h) ==
    Cardinality({i \in 1..Len(invoked) : invoked[i] = [tag |-> "message", h |-> h]})

Synthetic == {"connected", "disconnected", "error"}

\* C15: a handler registered under 'connected', 'disconnected' or 'error' is
\* invoked only by the local transition of that name - an open, a close, a
\* transport error - and never by the step that receives an inbound frame,
\* whatever the frame's type field is.
C15_SyntheticOnlyLocal ==
    [][\A i \in 1..Len(invoked') :
            invoked'[i].tag \in Synthetic =>
                /\ last'.op # "message"
                /\ out' = <<[tag |-> invoked'[i].tag, local |-> TRUE]>>]_vars

\* No key is presented twice by the last poller step.
NoRepeat(ts) == \A i, j \in 1..Len(ts) : i # j => ts[i].key # ts[j].key

\* The last poller step cut the seen-set: the keys it held plus the keys
\* the step inserted are more than the limit.
Cut == Len(shownNotifications) + Len(inserted') > SeenLimit

\* C16 as stated: over the whole life of the poller, whatever lists are
\* fetched, every alert presented is for a key no earlier alert was
\* presented for.
C16_OneAlertPerKeyEver ==
    [][last'.op = "pollResolve" =>
        /\ NoRepeat(toasts')
        /\ \A i \in 1..Len(toasts') : toasts'[i].key \notin everShown]_vars

\* C16, amended: notifications sharing a key give at most one alert for as
\* long as the key stays in the seen-set.  A response processed without a
\* cut presents alerts only for keys that were not in the seen-set, one
\* each, and leaves those keys in it; and keys leave the seen-set only when
\* it is cut.
C16_OneAlertWhileRemembered ==
    [][/\ (last'.op = "pollResolve" /\ ~Cut) =>
            /\ NoRepeat(toasts')
            /\ \A i \in 1..Len(toasts') :
                    /\ toasts'[i].key \notin Range(shownNotifications)
                    /\ toasts'[i].key \in Range(shownNotifications')
       /\ ~(Range(shownNotifications) \subseteq Range(shownNotifications')) =>
            (last'.op = "pollResolve" /\ Cut)]_vars

\* A notification whose alert was presented by an earlier response is
\* fetched again, alone, and no alert is presented.
C16_Witness ==
    /\ last.op = "pollResolve"
    /\ last.list = <<Filler(1)>>
    /\ notificationKey(Filler(1)) \in everShown
    /\ looked = <<notificationKey(Filler(1))>>
    /\ toasts = <<>>

\* C17: the seen-set holds at most 100 keys after every showNotification
\* call and after every poller step, however many distinct notifications
\* have been fetched.
C17_SeenBounded ==
    Len(shownNotifications) <= SeenLimit /\ peak <= SeenLimit

\* More distinct notifications than the limit were presented and the
\* seen-set was cut.
C17_Witness ==
    /\ last.op = "pollResolve"
    /\ Cardinality(everShown) = SeenLimit + 1
    /\ Len(shownNotifications) = SeenKeep

\* C18: when an insertion brings the seen-set above 100 keys, the set
\* becomes exactly the 50 keys inserted last, in their order, the key just
\* inserted being the last of them, and the 51 oldest are forgotten; keys
\* inserted later in the same response follow.  Without that, a response
\* only appends the keys it inserts, and no other step changes the set.
C18_CutKeepsNewest ==
    [][IF last'.op = "pollResolve"
       THEN LET n == SeenLimit + 1
                j == n - Len(shownNotifications)
                upToCut == shownNotifications \o SubSeq(inserted', 1, j)
            IN  IF Cut
                THEN /\ Len(upToCut) = n
                     /\ shownNotifications' =
                            SubSeq(upToCut, n - SeenKeep + 1, n)
                                \o SubSeq(inserted', j + 1, Len(inserted'))
                     /\ shownNotifications'[SeenKeep] = inserted'[j]
                     /\ \A i \in 1..(n - SeenKeep) :
                            upToCut[i] \in Range(SubSeq(inserted', j + 1, Len(inserted')))
                                \/ upToCut[i] \notin Range(shownNotifications')
                ELSE shownNotifications' = shownNotifications \o inserted'
       ELSE shownNotifications' = shownNotifications]_vars

\* The 101st key was inserted alone: the set is keys 52 to 101.
C18_Witness ==
    /\ last.op = "pollResolve"
    /\ inserted = <<notificationKey(Filler(SeenLimit + 1))>>
    /\ shownNotifications =
            [i \in 1..SeenKeep |-> notificationKey(Filler(i + SeenLimit + 1 - SeenKeep))]

\* The keys of the high and urgent notifications of a list, in list order.
ToastableKeys(list) ==
    LET hu == SelectSeq(list, LAMBDA n : n.priority \in {"high", "urgent"})
    IN  [i \in 1..Len(hu) |-> notificationKey(hu[i])]

\* C19: normal and low notifications are dropped before deduplication: the
\* keys a response looks up are the keys of its high and urgent
\* notifications, in order, and nothing else; only such keys are inserted or
\* presented, so a list without high or urgent notifications leaves the
\* seen-set as it was and presents nothing.
C19_FilterBeforeDedup ==
    [][last'.op = "pollResolve" =>
        /\ looked' = ToastableKeys(last'.list)
        /\ Range(inserted') \subseteq Range(looked')
        /\ KeysOf(toasts') \subseteq Range(looked')
        /\ (ToastableKeys(last'.list) = <<>>) =>
                (toasts' = <<>> /\ shownNotifications' = shownNotifications)]_vars

\* One response lists a high error and a normal info: one alert, for the
\* error, and one insertion.
C19_Witness ==
    /\ last.op = "pollResolve"
    /\ last.list = <<Probe("error", "high", Absent), Probe("info", "normal", Absent)>>
    /\ Len(toasts) = 1
    /\ toasts[1].kind = "error"
    /\ inserted = <<notificationKey(Probe("error", "high", Absent))>>
    /\ shownNotifications = inserted

\* What a response has done once the first i notifications of its list have
\* been processed.
After(list, i) ==
    Loop([set |-> shownNotifications, looked |-> <<>>, inserted |-> <<>>,
          peak |-> 0, toasts |-> <<>>], SubSeq(list, 1, i), 1)

\* C20: for every high or urgent notification of a response, at the moment
\* it is processed: if its key is not in the seen-set, the key is inserted
\* and exactly one alert, for that key, is added to those the tick presents;
\* if the key is in the seen-set, nothing is presented and the seen-set is
\* unchanged.  The response leaves the set and the alerts as its last
\* notification left them.
C20_AbsentOnceElseNothing ==
    [][last'.op = "pollResolve" =>
        LET list == last'.list IN
        /\ shownNotifications' = After(list, Len(list)).set
        /\ toasts' = After(list, Len(list)).toasts
        /\ \A i \in 1..Len(list) :
                list[i].priority \in {"high", "urgent"} =>
                    LET k == notificationKey(list[i])
                        before == After(list, i - 1)
                        after == After(list, i)
                    IN  IF k \in Range(before.set)
                        THEN after.set = before.set /\ after.toasts = before.toasts
                        ELSE /\ k \in Range(after.set)
                             /\ Len(after.toasts) = Len(before.toasts) + 1
                             /\ SubSeq(after.toasts, 1, Len(before.toasts)) = before.toasts
                             /\ after.toasts[Len(after.toasts)].key = k]_vars

\* One response lists the same urgent notification twice, its key not yet
\* seen: one alert.
C20_Witness ==
    /\ last.op = "pollResolve"
    /\ last.list = <<Probe("captcha_detected", "urgent", Some(<<"J1">>)),
                     Probe("captcha_detected", "urgent", Some(<<"J1">>))>>
    /\ Len(toasts) = 1
    /\ toasts[1].kind = "captcha"
    /\ Len(looked) = 2
    /\ Len(inserted) = 1

\* The style and duration the policy gives to a type.
StyleOf(t) ==
    IF t \in {"error", "job_failed"} THEN [kind |-> "error", duration |-> 8000]
    ELSE IF t = "captcha_detected" THEN [kind |-> "captcha", duration |-> 10000]
    ELSE [kind |-> "warning", duration |-> 6000]

\* C21: a response holding one high or urgent notification whose key is not
\* in the seen-set presents one alert whose style and duration are those of
\* the notification's type - error or job_failed: error style, 8000 ms;
\* captcha_detected: action-required style, 10000 ms; any other type:
\* warning style, 6000 ms - the same for high as for urgent.
C21_PolicyByType ==
    [][(/\ last'.op = "pollResolve"
        /\ Len(last'.list) = 1
        /\ last'.list[1].priority \in {"high", "urgent"}
        /\ notificationKey(last'.list[1]) \notin Range(shownNotifications))
            => toasts' = <<[key |-> notificationKey(last'.list[1]),
                            kind |-> StyleOf(last'.list[1].type[1]).kind,
                            duration |-> StyleOf(last'.list[1].type[1]).duration]>>]_vars

\* An urgent job_failed notification was presented in the error style.
C21_Witness ==
    /\ last.op = "pollResolve"
    /\ last.list = <<Probe("job_failed", "urgent", Absent)>>
    /\ Len(toasts) = 1
    /\ toasts[1].kind = "error"
    /\ toasts[1].duration = 8000

\* C22: a fetch that fails presents no alert, leaves the seen-set and the
\* last-seen mark as they were, issues no fetch of its own (one request
\* fewer is in flight) and leaves the interval running; the tick that
\* follows a failure issues a fetch as any tick does.
C22_FailureSwallowed ==
    [][/\ last'.op = "pollFail" =>
            /\ toasts' = <<>>
            /\ shownNotifications' = shownNotifications
            /\ lastSeen' = lastSeen
            /\ everShown' = everShown
            /\ inflight' = inflight - 1
            /\ intervals' = intervals
       /\ (last.op = "pollFail" /\ last'.op = "pollTick") =>
            inflight' = inflight + 1]_vars

\* A fetch failed after a key had been presented: nothing is in flight and
\* the interval runs.
C22_Witness ==
    /\ last.op = "pollFail"
    /\ shownNotifications # <<>>
    /\ inflight = 0
    /\ intervals = 1

\* The instance is mounted with enabled = true.
Polling == phase = "mounted" /\ enabled

\* C23: the instance has one interval running while it is mounted and
\* enabled and none otherwise (never mounted, disabled, or torn down), and
\* every step that issues a fetch leaves it mounted and enabled, whatever
\* the sequence of mount, enable, disable and unmount steps.
C23_FetchOnlyWhilePolling ==
    /\ [](intervals = IF Polling THEN 1 ELSE 0)
    /\ [][inflight' > inflight => Polling']_vars

\* The instance was unmounted while enabled, with a response outstanding:
\* no interval is left.
C23_Witness ==
    /\ last.op = "pollUnmount"
    /\ enabled
    /\ inflight > 0
    /\ intervals = 0

\* The polled notification of job j's captcha.
Captcha(j) == Probe("captcha_detected", "urgent", Some(<<j>>))

\* Alerts presented so far for job j's attention event: those of the pushed
\* frame, and the one of the polled notification.
AlertsForEvent(j) ==
    Cardinality({i \in 1..Len(pushAlerts) : pushAlerts[i].job = j})
        + (IF notificationKey(Captcha(j)) \in everShown THEN 1 ELSE 0)

\* C24: an attention event of a job that arrives both as an
\* intervention_needed frame and as a polled urgent captcha_detected
\* notification gives the user one alert, not two, whichever arrives first.
C24_OneAlertAcrossChannels ==
    \A j \in Jobs : AlertsForEvent(j) <= 1

\* C25: a job_status_changed frame {job_id, new_status} applied through
\* updateJobStatus gives the job with that id the new status, whatever the
\* value, in the jobs list and in selectedJob when it has that id; that
\* job's other fields, the other jobs, the length and order of the list,
\* and isLoading, error, pagination and filters are unchanged; an id no job
\* has changes nothing.
C25_OnlyStatusChanges ==
    [][(last'.op = "statusFrame" /\ "job_status_changed" \in hookTags) =>
        LET id == last'.id
            st == last'.status
        IN  /\ Len(jobs') = Len(jobs)
            /\ \A i \in 1..Len(jobs) :
                    /\ jobs'[i].id = jobs[i].id
                    /\ jobs'[i].rev = jobs[i].rev
                    /\ jobs'[i].status = IF jobs[i].id = id THEN st ELSE jobs[i].status
            /\ selectedJob'.id = selectedJob.id
            /\ selectedJob'.rev = selectedJob.rev
            /\ selectedJob'.status = IF selectedJob.id = id THEN st ELSE selectedJob.status
            /\ UNCHANGED <<isLoading, error, pagination, filters>>
            /\ (id = UnknownId) => UNCHANGED storeVars]_vars

\* A frame gave the selected job J1 the status 'failed' after a CRUD
\* response had replaced its other fields, while a request had failed: J1
\* keeps those fields, J2 and the error are as they were.
C25_Witness ==
    /\ last.op = "statusFrame"
    /\ last.id = "J1"
    /\ last.status = "failed"
    /\ jobs = <<Job("J1", "failed", "r1"), Job("J2", "pending", "r0")>>
    /\ selectedJob.id = "J1"
    /\ selectedJob.status = "failed"
    /\ error = "failed"

\* The copies of job id the store holds: its entry in the jobs list, and
\* selectedJob when it has that id.
Copies(id) ==
    {jobs[i] : i \in {k \in 1..Len(jobs) : jobs[k].id = id}}
        \cup (IF selectedJob.id = id THEN {selectedJob} ELSE {})

\* C26: whatever the order in which status events and the responses of
\* updateJob, retryJob and resumeJob calls for a job are applied, the status
\* the store holds for that job is the one carried by the write applied
\* last.
C26_LastWriteWins ==
    \A id \in StoreIds :
        lastWrite[id] # "none" => \A j \in Copies(id) : j.status = lastWrite[id]

\* The part of C26 that holds: the job's entry in the jobs list has the
\* status of the write applied last.
C26_LastWriteWinsInList ==
    \A id \in StoreIds :
        lastWrite[id] # "none" =>
            \A i \in 1..Len(jobs) : jobs[i].id = id => jobs[i].status = lastWrite[id]

\* C27: fetches that were in flight together settle in any order, and no
\* key is ever cut from the seen-set.  Every high or urgent notification of
\* a response has had its alert presented once the response is processed,
\* and the response presents an alert exactly for the keys no earlier
\* response presented, one each: a notification contained in several of
\* the responses is presented exactly once.
C27_OverlapPresentsOnce ==
    [][last'.op = "pollResolve" =>
        /\ NoRepeat(toasts')
        /\ KeysOf(toasts') = Range(ToastableKeys(last'.list)) \ everShown
        /\ Range(ToastableKeys(last'.list)) \subseteq everShown']_vars

\* The last of the fetches in flight together resolves with an urgent
\* notification that an earlier one of them presented: no alert.
C27_Witness ==
    /\ last.op = "pollResolve"
    /\ inflight = 0
    /\ last.list = <<Captcha("J1")>>
    /\ notificationKey(Captcha("J1")) \in everShown
    /\ looked = <<notificationKey(Captcha("J1"))>>
    /\ toasts = <<>>

\* C28: whenever a socket closes with the attempt counter below 5, the
\* counter is incremented and one reconnect is scheduled, whether or not a
\* handler invoked for the 'disconnected' event throws.
C28_CloseReactionIndependent ==
    [][(last'.op \in {"close", "closeThrows"}
            /\ reconnectAttempts < maxReconnectAttempts) =>
        /\ reconnectAttempts' = reconnectAttempts + 1
        /\ timers' = timers + 1]_vars

\* C28 for the closes in which no handler throws.
C28_CloseReactionNoThrow ==
    [][(last'.op = "close" /\ reconnectAttempts < maxReconnectAttempts) =>
        /\ reconnectAttempts' = reconnectAttempts + 1
        /\ timers' = timers + 1]_vars

\* C29: the job id in the DELETE /api/jobs/notifications/clear request of
\* a click is the job id of the POST /api/jobs/{id}/resume request the
\* click has just had answered, whatever status checks completed between.
C29_ClearsTheResumedJob ==
    [][last'.op = "resumeOk" => last'.cleared = last'.resumed]_vars

\* C29 when no status check completes while the POST is awaited.
C29_ClearsTheResumedJobQuiet ==
    [][(last'.op = "resumeOk" /\ last.op = "click") =>
            last'.cleared = last'.resumed]_vars

\* C30: whenever a status check finds a pending captcha while no click is
\* being processed, the Continue button is visible and enabled after it;
\* and the button stays visible and enabled until a status check finds no
\* captcha or the user clicks it: no other step hides a visible button or
\* disables an enabled one.  This holds for every captcha, one found after
\* an earlier successful resume included.
C30_ContinueOffered ==
    [][/\ (last'.op = "checkJobStatus" /\ last'.found # "none" /\ pc = "idle") =>
            (display' = "block" /\ ~disabled')
       /\ (display = "block" /\ pc = "idle"
                /\ last'.op \notin {"checkJobStatus", "click"}) =>
            display' = "block"
       /\ (~disabled /\ last'.op # "click") => ~disabled']_vars

\* C30, first part alone: a captcha found while no click is being
\* processed leaves the button visible and enabled.
C30_ClickableWhenFound ==
    [][(last'.op = "checkJobStatus" /\ last'.found # "none" /\ pc = "idle") =>
            (display' = "block" /\ ~disabled')]_vars

\* C30, second part alone: a button shown for a captcha is hidden only by
\* a status check or by a click.
C30_StaysVisible ==
    [][(display = "block" /\ pc = "idle"
            /\ last'.op \notin {"checkJobStatus", "click"}) =>
            display' = "block"]_vars

\* C30 for the captchas found before any resume has succeeded.
C30_ContinueOfferedBeforeResume ==
    [][(last'.op = "checkJobStatus" /\ last'.found # "none" /\ pc = "idle"
            /\ ~disabled) =>
            (display' = "block" /\ ~disabled')]_vars

====
